---- MODULE Spec2Model ----
(***************************************************************************)
(* The Transaction Processing Unit of src/src/tpu.rs as a state machine.   *)
(*                                                                         *)
(* Three pipelines share nothing but the stop flag `exit`:                 *)
(*   serve path      packetQ -> 4 verifiers -> verifiedQ -> t_server       *)
(*   sync path       accounting output -> sync_service                     *)
(*                   (leader) or sync_no_broadcast_service (validator)     *)
(*   replicate path  window -> windowQ -> t_replicator (validator)         *)
(* Every worker is a loop; one action per blocking call or loop test.      *)
(* A blocking recv_timeout on an empty queue is the timeout (Err) outcome. *)
(***************************************************************************)
EXTENDS Integers, Sequences, FiniteSets, Bags, TLC

(* ------------------------------ bounds -------------------------------- *)
\* batches that may be between the packet receiver and t_server at once
MaxInFlight == 2
\* entries the accounting stage emits on its output channel
MaxEntries == 4
\* entries that process_entry_list_into_blobs packs into one blob
MaxBlobEntries == 2
\* blobs the leader produces for the validator: indices 0..MaxBlobs-1
MaxBlobs == 3

(* ------------------------- program constants -------------------------- *)
\* `for _ in 0..4` : the verifier pool
NumVerifiers == 4
\* tests::test_replicate: `starting_balance`, `transfer_amount`
StartingBalance == 10000
TransferAmount == 501

(* ------------------------------ packets ------------------------------- *)
\* A packet carries one transaction or one query; sig is 1 iff its
\* signature verifies.
TxGood == [kind |-> "tx", sig |-> 1]
TxBad == [kind |-> "tx", sig |-> 0]
Query == [kind |-> "query", sig |-> 0]

\* The SharedPackets batches the receiver may put on the packet queue.
BatchA == <<TxGood, TxBad, Query>>
BatchB == <<TxBad, TxGood>>
SharedPackets == {BatchA, BatchB}

VARIABLES
    mode,            \* "leader" (serve) or "validator" (replicate)
    exit,            \* the shared stop flag
    \* serve path
    packetQ,         \* packet_sender -> shared_packet_receiver
    verify_threads,  \* the bag of the verifier threads' local states
    recvr_lock,      \* the mutex around shared_packet_receiver is held
    sendr_lock,      \* the mutex around verified_sender is held
    verifiedQ,       \* verified_sender -> verified_receiver
    spc,             \* t_server position
    sflagged,        \* t_server finished an iteration with the flag set
    accountingInput, \* packets handed to the accounting stage, with flag
    answered,        \* query packets answered through the responder
    \* sync path
    emitted,         \* entries 1..emitted were sent on accounting_stage.output
    emittedAtStop,   \* value of emitted when the stop flag was set
    output,          \* accounting_stage.output, the entry channel
    sync_pc,         \* sync thread position; before the loop test, the
                     \* pass's result: "ok", "timeout", "send_err"
    sync_entry,      \* sync thread: `entry` in hand (0: none)
    sync_l,          \* sync thread: `l` of write_entries
    registered,      \* register_entry_id calls, in order
    log,             \* lines appended to the leader's writer, in order
    notified,        \* notify_entry_info_subscribers calls, in order
    broadcast,       \* blob queues sent on broadcast_sender, in order
    bcast_alive,     \* the broadcaster still holds broadcast_receiver
    \* replicate path
    startBal,        \* the mint's balance at start
    window_buf,      \* window: blob indices held back
    consumed,        \* window: next index to release
    reordered,       \* a blob arrived ahead of a missing one
    windowQ,         \* window_sender -> window_receiver
    rpc,             \* t_replicator position
    r_blobs,         \* t_replicator: `blobs` in hand
    rflagged,        \* t_replicator finished an iteration with the flag set
    replicated,      \* blob indices handed to process_verified_entries
    recycled,        \* blob indices t_replicator recycled, in order
    alice,           \* accountant: balance of the mint
    bob              \* accountant: balance of the recipient

serveVars == <<packetQ, verify_threads, recvr_lock, sendr_lock, verifiedQ, spc,
               sflagged, accountingInput, answered>>

syncVars == <<emitted, output, sync_pc, sync_entry, sync_l, registered, log,
              notified, broadcast, bcast_alive>>

replVars == <<startBal, window_buf, consumed, reordered, windowQ, rpc, r_blobs,
              rflagged, replicated, recycled, alice, bob>>

vars == <<mode, exit, emittedAtStop, serveVars, syncVars, replVars>>

(* ------------------------------ helpers ------------------------------- *)
RECURSIVE SumLen(_)
SumLen(s) == IF s = <<>> THEN 0 ELSE Len(Head(s)) + SumLen(Tail(s))

\* A verifier thread: where it is in its loop (pc: "recv", "recv_locked" inside
\* recv_batch, "verify", "send_locked" about to send, "ok" or "err" before the
\* loop test, "exited", "panicked"), the `batch` it holds, and
\* whether it has already finished an iteration with the stop flag set.
\* The four threads are spawned by one loop from one closure and carry no
\* identity, so the pool is the bag of their local states.
VThread(pc, batch, flagged) == [pc |-> pc, batch |-> batch, flagged |-> flagged]

Pool == BagToSet(verify_threads)

Move(from, to) == (verify_threads (-) SetToBag({from})) (+) SetToBag({to})

RECURSIVE HeldBy(_)
HeldBy(S) ==
    IF S = {} THEN 0
    ELSE LET t == CHOOSE x \in S : TRUE
         IN  CopiesIn(t, verify_threads) * Len(t.batch) + HeldBy(S \ {t})

\* batches between the receiver and t_server
InFlight == Len(packetQ) + HeldBy(Pool) + SumLen(verifiedQ)

\* the number of verifier threads at position pc
InPc(pc) ==
    BagCardinality([t \in {x \in Pool : x.pc = pc} |-> verify_threads[t]])

\* ecdsa::ed25519_verify : one flag vector per batch, one byte per packet
ed25519_verify(batch) ==
    [i \in 1..Len(batch) |-> [j \in 1..Len(batch[i]) |-> batch[i][j].sig]]

\* Iterator::zip : pairs up to the shorter of the two
Zip(a, b) ==
    LET n == IF Len(a) < Len(b) THEN Len(a) ELSE Len(b)
    IN  [i \in 1..n |-> <<a[i], b[i]>>]

\* a verify_batch that pairs batch i with the flags of another batch
verify_batch_res_crossed(batch) ==
    LET r == ed25519_verify(batch)
    IN  [i \in 1..Len(batch) |-> <<batch[i], r[Len(batch) + 1 - i]>>]

\* verify_batch: `batch.into_iter().zip(r).collect()`
verify_batch_res(batch) == Zip(batch, ed25519_verify(batch))

\* the entries of all blobs of a list of blob queues, in order
RECURSIVE Flatten(_)
Flatten(ss) == IF ss = <<>> THEN <<>> ELSE Head(ss) \o Flatten(Tail(ss))

IsPrefix(s, t) == Len(s) <= Len(t) /\ \A i \in 1..Len(s) : s[i] = t[i]

Count(x, s) == Cardinality({i \in 1..Len(s) : s[i] = x})

\* the entries the accounting stage has emitted, in order
Emitted == [i \in 1..emitted |-> i]

\* ledger::process_entry_list_into_blobs : the list cut, in order, into blobs
RECURSIVE process_entry_list_into_blobs(_)
process_entry_list_into_blobs(list) ==
    IF list = <<>> THEN <<>>
    ELSE LET n == IF Len(list) < MaxBlobEntries THEN Len(list) ELSE MaxBlobEntries
         IN  <<SubSeq(list, 1, n)>> \o
             process_entry_list_into_blobs(SubSeq(list, n + 1, Len(list)))

Reverse(q) == [k \in 1..Len(q) |-> q[Len(q) + 1 - k]]

\* tests::test_replicate: blob `i` carries entry0, a timestamp event, and
\* entry1, one transfer of TransferAmount from the mint to the recipient
BlobEntries(i) ==
    <<[index |-> i, event |-> "timestamp"], [index |-> i, event |-> "transfer"]>>

\* ledger::reconstruct_entries_from_blobs : the entries of the blobs, in order
RECURSIVE reconstruct_entries_from_blobs(_)
reconstruct_entries_from_blobs(blobs) ==
    IF blobs = <<>> THEN <<>>
    ELSE BlobEntries(Head(blobs)) \o reconstruct_entries_from_blobs(Tail(blobs))

\* the blob indices of a list of entries, one per blob, in order
RECURSIVE Indices(_)
Indices(entries) ==
    IF entries = <<>> THEN <<>>
    ELSE (IF Head(entries).event = "transfer" THEN <<Head(entries).index>> ELSE <<>>)
         \o Indices(Tail(entries))

\* accountant.process_verified_entries : applies the events in order and
\* stops with an Err at the first transfer the mint cannot pay
RECURSIVE process_verified_entries(_, _)
process_verified_entries(entries, acct) ==
    IF entries = <<>> THEN acct
    ELSE IF Head(entries).event # "transfer"
         THEN process_verified_entries(Tail(entries), acct)
         ELSE IF acct.alice < TransferAmount
              THEN [acct EXCEPT !.ok = FALSE]
              ELSE process_verified_entries(
                       Tail(entries),
                       [acct EXCEPT !.alice = @ - TransferAmount,
                                    !.bob = @ + TransferAmount])

(* ------------------------------- Init --------------------------------- *)
Init ==
    /\ mode \in {"leader", "validator"}
    /\ exit = FALSE
    /\ packetQ = <<>>
    /\ verify_threads = [t \in {VThread("recv", <<>>, FALSE)} |-> NumVerifiers]
    /\ recvr_lock = FALSE
    /\ sendr_lock = FALSE
    /\ verifiedQ = <<>>
    /\ spc = "recv"
    /\ sflagged = FALSE
    /\ accountingInput = {}
    /\ answered = {}
    /\ emitted = 0
    /\ emittedAtStop = 0
    /\ output = <<>>
    /\ sync_pc = "recv"
    /\ sync_entry = 0
    /\ sync_l = <<>>
    /\ registered = <<>>
    /\ log = <<>>
    /\ notified = <<>>
    /\ broadcast = <<>>
    /\ bcast_alive = TRUE
    /\ startBal \in IF mode = "validator"
                    THEN {StartingBalance, TransferAmount}
                    ELSE {StartingBalance}
    /\ window_buf = {}
    /\ consumed = 0
    /\ reordered = FALSE
    /\ windowQ = <<>>
    /\ rpc = "recv"
    /\ r_blobs = <<>>
    /\ rflagged = FALSE
    /\ replicated = <<>>
    /\ recycled = <<>>
    /\ alice = startBal
    /\ bob = 0

(* --------------------------- the stop flag ---------------------------- *)
\* exit.store(true, Ordering::Relaxed), by the caller of serve/replicate
SetExit ==
    /\ ~exit
    /\ exit' = TRUE
    /\ emittedAtStop' = emitted
    /\ UNCHANGED <<mode, serveVars, syncVars, replVars>>

(* ----------------------------- serve path ----------------------------- *)
\* streamer::receiver forwards one batch read from the serve socket
Receiver ==
    /\ InFlight < MaxInFlight
    /\ \E b \in SharedPackets : packetQ' = Append(packetQ, b)
    /\ UNCHANGED <<verify_threads, recvr_lock, sendr_lock, verifiedQ, spc,
                   sflagged, accountingInput, answered>>
    /\ UNCHANGED <<mode, exit, emittedAtStop, syncVars, replVars>>

\* verifier: `recvr.lock()`, the guard lives to the end of the statement
verifier_lock(t) ==
    /\ t.pc = "recv"
    /\ ~recvr_lock
    /\ recvr_lock' = TRUE
    /\ verify_threads' = Move(t, VThread("recv_locked", <<>>, t.flagged))
    /\ UNCHANGED <<packetQ, sendr_lock, verifiedQ, spc, sflagged,
                   accountingInput, answered>>
    /\ UNCHANGED <<mode, exit, emittedAtStop, syncVars, replVars>>

\* a verifier whose recv_batch copies the queued batches and leaves them
verifier_recv_peek(t) ==
    /\ t.pc = "recv_locked"
    /\ recvr_lock' = FALSE
    /\ IF packetQ = <<>>
       THEN verify_threads' = Move(t, VThread("err", <<>>, t.flagged))
       ELSE verify_threads' = Move(t, VThread("verify", packetQ, t.flagged))
    /\ UNCHANGED <<packetQ, sendr_lock, verifiedQ, spc, sflagged,
                   accountingInput, answered>>
    /\ UNCHANGED <<mode, exit, emittedAtStop, syncVars, replVars>>

\* a verifier that binds the guard to a local, so that it outlives recv_batch
verifier_recv_guard_kept(t) ==
    /\ t.pc = "recv_locked"
    /\ IF packetQ = <<>>
       THEN /\ verify_threads' = Move(t, VThread("err", <<>>, t.flagged))
            /\ recvr_lock' = FALSE
            /\ UNCHANGED packetQ
       ELSE /\ verify_threads' = Move(t, VThread("verify", packetQ, t.flagged))
            /\ recvr_lock' = TRUE
            /\ packetQ' = <<>>
    /\ UNCHANGED <<sendr_lock, verifiedQ, spc, sflagged, accountingInput,
                   answered>>
    /\ UNCHANGED <<mode, exit, emittedAtStop, syncVars, replVars>>

\* verifier: `streamer::recv_batch(&guard)?`, then the guard is dropped
verifier_recv(t) ==
    /\ t.pc = "recv_locked"
    /\ recvr_lock' = FALSE
    /\ IF packetQ = <<>>
       THEN /\ verify_threads' = Move(t, VThread("err", <<>>, t.flagged))
            /\ UNCHANGED packetQ
       ELSE /\ verify_threads' = Move(t, VThread("verify", packetQ, t.flagged))
            /\ packetQ' = <<>>
    /\ UNCHANGED <<sendr_lock, verifiedQ, spc, sflagged, accountingInput,
                   answered>>
    /\ UNCHANGED <<mode, exit, emittedAtStop, syncVars, replVars>>

\* a pool that lets a verifier take the sender lock only when no other
\* verifier holds a batch
verify_batch_lock_in_turn(t) ==
    /\ t.pc = "verify"
    /\ ~sendr_lock
    /\ InPc("verify") = 1
    /\ sendr_lock' = TRUE
    /\ verify_threads' = Move(t, VThread("send_locked", t.batch, t.flagged))
    /\ UNCHANGED <<packetQ, recvr_lock, verifiedQ, spc, sflagged,
                   accountingInput, answered>>
    /\ UNCHANGED <<mode, exit, emittedAtStop, syncVars, replVars>>

\* verify_batch: ecdsa::ed25519_verify(&batch) and the zip, with no lock
\* held, then `sendr.lock()`
verify_batch_lock(t) ==
    /\ t.pc = "verify"
    /\ ~sendr_lock
    /\ sendr_lock' = TRUE
    /\ verify_threads' = Move(t, VThread("send_locked", t.batch, t.flagged))
    /\ UNCHANGED <<packetQ, recvr_lock, verifiedQ, spc, sflagged,
                   accountingInput, answered>>
    /\ UNCHANGED <<mode, exit, emittedAtStop, syncVars, replVars>>

\* verify_batch: `guard.send(res)?`, the guard is dropped with the statement;
\* verifier: `Self::verify_batch(batch, sendr).expect(..)`
\* the send fails, and expect panics, once t_server dropped verified_receiver
verify_batch(t) ==
    /\ t.pc = "send_locked"
    /\ sendr_lock' = FALSE
    /\ IF spc = "exited"
       THEN /\ verify_threads' = Move(t, VThread("panicked", <<>>, t.flagged))
            /\ UNCHANGED verifiedQ
       ELSE /\ verifiedQ' = Append(verifiedQ, verify_batch_res(t.batch))
            /\ verify_threads' = Move(t, VThread("ok", <<>>, t.flagged))
    /\ UNCHANGED <<packetQ, recvr_lock, spc, sflagged, accountingInput,
                   answered>>
    /\ UNCHANGED <<mode, exit, emittedAtStop, syncVars, replVars>>

\* a verifier that takes the flag down as it leaves
\* (`if e.is_err() && exit_.swap(false, ..) { break; }`)
verifier_loop_swap(t) ==
    /\ t.pc \in {"ok", "err"}
    /\ verify_threads' =
           Move(t, VThread(IF t.pc = "err" /\ exit THEN "exited" ELSE "recv",
                           <<>>, t.flagged \/ exit))
    /\ exit' = IF t.pc = "err" THEN FALSE ELSE exit
    /\ UNCHANGED <<packetQ, recvr_lock, sendr_lock, verifiedQ, spc, sflagged,
                   accountingInput, answered>>
    /\ UNCHANGED <<mode, emittedAtStop, syncVars, replVars>>

\* verifier thread: `if e.is_err() && exit_.load(..) { break; }`
verifier_loop(t) ==
    /\ t.pc \in {"ok", "err"}
    /\ verify_threads' =
           Move(t, VThread(IF t.pc = "err" /\ exit THEN "exited" ELSE "recv",
                           <<>>, t.flagged \/ exit))
    /\ UNCHANGED <<packetQ, recvr_lock, sendr_lock, verifiedQ, spc, sflagged,
                   accountingInput, answered>>
    /\ UNCHANGED <<mode, exit, emittedAtStop, syncVars, replVars>>

\* ThinClientService: the transactions of one (batch, flags) pair that go on
\* to the accounting stage, each with the flag it was paired with
Forwarded(pair) ==
    {[pkt |-> pair[1][j], flag |-> pair[2][j]] :
        j \in {k \in 1..Len(pair[1]) :
                  k <= Len(pair[2]) /\ pair[1][k].kind = "tx" /\ pair[2][k] = 1}}

\* ThinClientService: the queries of one batch, answered whatever their flag
Queries(pair) ==
    {pair[1][j] : j \in {k \in 1..Len(pair[1]) : pair[1][k].kind = "query"}}

\* t_server: thin_client_service.process_request_packets(..)
process_request_packets ==
    /\ spc = "recv"
    /\ IF verifiedQ = <<>>
       THEN /\ spc' = "err"
            /\ UNCHANGED <<verifiedQ, accountingInput, answered>>
       ELSE LET mms == Head(verifiedQ) IN
            /\ verifiedQ' = Tail(verifiedQ)
            /\ accountingInput' = accountingInput \cup
                   UNION {Forwarded(mms[i]) : i \in 1..Len(mms)}
            /\ answered' = answered \cup
                   UNION {Queries(mms[i]) : i \in 1..Len(mms)}
            /\ spc' = "ok"
    /\ UNCHANGED <<packetQ, verify_threads, recvr_lock, sendr_lock, sflagged>>
    /\ UNCHANGED <<mode, exit, emittedAtStop, syncVars, replVars>>

\* t_server: `if e.is_err() { if exit.load(..) { break; } }`
server_loop ==
    /\ spc \in {"ok", "err"}
    /\ spc' = IF spc = "err" /\ exit THEN "exited" ELSE "recv"
    /\ sflagged' = (sflagged \/ exit)
    /\ UNCHANGED <<packetQ, verify_threads, recvr_lock, sendr_lock, verifiedQ,
                   accountingInput, answered>>
    /\ UNCHANGED <<mode, exit, emittedAtStop, syncVars, replVars>>

NextServe ==
    \/ SetExit
    \/ Receiver
    \/ \E t \in Pool : verifier_lock(t)
    \/ \E t \in Pool : verifier_recv(t)
    \/ \E t \in Pool : verify_batch_lock(t)
    \/ \E t \in Pool : verify_batch(t)
    \/ \E t \in Pool : verifier_loop(t)
    \/ process_request_packets
    \/ server_loop

\* serve(): the serve path of the leader assembly
InitServe == Init /\ mode = "leader"

SpecServe == InitServe /\ [][NextServe]_vars

\* replicate(): the serve path of the validator assembly, built by the same
\* statements with the same closures; it never reads the mint's balance
InitServeValidator ==
    Init /\ mode = "validator" /\ startBal = StartingBalance

SpecServeValidator == InitServeValidator /\ [][NextServe]_vars

\* the serve path of either assembly
SpecServeEither == (InitServe \/ InitServeValidator) /\ [][NextServe]_vars

(* ------------- serve path with a failing signature verifier ----------- *)
\* ecdsa::ed25519_verify failing: a flag result with a vector for the first
\* batches only, or for none
ShortFlags(batch) ==
    {SubSeq(ed25519_verify(batch), 1, n) : n \in 0..(Len(batch) - 1)}

\* verify_batch on a short flag result: `batch.into_iter().zip(r).collect()`
\* stops at the shorter of the two, and `send(res)?` sends what was paired
\* (the guard on the queue length keeps the emptied messages finite in number)
verify_batch_short(t) ==
    /\ t.pc = "send_locked"
    /\ Len(verifiedQ) < MaxInFlight
    /\ sendr_lock' = FALSE
    /\ IF spc = "exited"
       THEN /\ verify_threads' = Move(t, VThread("panicked", <<>>, t.flagged))
            /\ UNCHANGED verifiedQ
       ELSE /\ \E r \in ShortFlags(t.batch) :
                   verifiedQ' = Append(verifiedQ, Zip(t.batch, r))
            /\ verify_threads' = Move(t, VThread("ok", <<>>, t.flagged))
    /\ UNCHANGED <<packetQ, recvr_lock, spc, sflagged, accountingInput,
                   answered>>
    /\ UNCHANGED <<mode, exit, emittedAtStop, syncVars, replVars>>

\* the serve path while it runs (the stop flag stays unset), with a
\* verifier whose flag result may come back short
NextShortFlags ==
    \/ Receiver
    \/ \E t \in Pool : verifier_lock(t)
    \/ \E t \in Pool : verifier_recv(t)
    \/ \E t \in Pool : verify_batch_lock(t)
    \/ \E t \in Pool : verify_batch(t)
    \/ \E t \in Pool : verify_batch_short(t)
    \/ \E t \in Pool : verifier_loop(t)
    \/ process_request_packets
    \/ server_loop

SpecShortFlags == InitServe /\ [][NextShortFlags]_vars

(* ------------------------------ sync path ----------------------------- *)
\* the accounting stage sends its next entry on its output channel
Emit ==
    /\ emitted < MaxEntries
    /\ emitted' = emitted + 1
    /\ output' = Append(output, emitted + 1)
    /\ UNCHANGED <<sync_pc, sync_entry, sync_l, registered, log, notified,
                   broadcast, bcast_alive>>
    /\ UNCHANGED <<mode, exit, emittedAtStop, serveVars, replVars>>

\* streamer::broadcaster leaves its loop on the stop flag and drops
\* broadcast_receiver
BroadcasterExit ==
    /\ mode = "leader"
    /\ exit
    /\ bcast_alive
    /\ bcast_alive' = FALSE
    /\ UNCHANGED <<emitted, output, sync_pc, sync_entry, sync_l, registered,
                   log, notified, broadcast>>
    /\ UNCHANGED <<mode, exit, emittedAtStop, serveVars, replVars>>

\* write_entries that pushes the first entry without write_entry
write_entries_recv_unwritten ==
    /\ sync_pc = "recv"
    /\ IF output = <<>>
       THEN /\ sync_pc' = "timeout"
            /\ UNCHANGED <<output, sync_l>>
       ELSE /\ sync_l' = Append(sync_l, Head(output))
            /\ output' = Tail(output)
            /\ sync_pc' = "try_recv"
    /\ UNCHANGED <<emitted, sync_entry, registered, log, notified, broadcast,
                   bcast_alive>>
    /\ UNCHANGED <<mode, exit, emittedAtStop, serveVars, replVars>>

\* write_entries: `output.lock().recv_timeout(Duration::new(1, 0))?`
write_entries_recv ==
    /\ sync_pc = "recv"
    /\ IF output = <<>>
       THEN /\ sync_pc' = "timeout"
            /\ UNCHANGED <<output, sync_entry>>
       ELSE /\ sync_entry' = Head(output)
            /\ output' = Tail(output)
            /\ sync_pc' = "register"
    /\ UNCHANGED <<emitted, sync_l, registered, log, notified, broadcast,
                   bcast_alive>>
    /\ UNCHANGED <<mode, exit, emittedAtStop, serveVars, replVars>>

\* a write_entry that goes to the writer without register_entry_id
write_entry_register_skipped ==
    /\ sync_pc = "register"
    /\ sync_pc' = "writeln"
    /\ UNCHANGED <<emitted, output, sync_entry, sync_l, registered, log,
                   notified, broadcast, bcast_alive>>
    /\ UNCHANGED <<mode, exit, emittedAtStop, serveVars, replVars>>

\* write_entry: `accountant.register_entry_id(&entry.id)`
write_entry_register ==
    /\ sync_pc = "register"
    /\ registered' = Append(registered, sync_entry)
    /\ sync_pc' = "writeln"
    /\ UNCHANGED <<emitted, output, sync_entry, sync_l, log, notified,
                   broadcast, bcast_alive>>
    /\ UNCHANGED <<mode, exit, emittedAtStop, serveVars, replVars>>

\* write_entry whose writer keeps the line in validator mode too
write_entry_writeln_kept ==
    /\ sync_pc = "writeln"
    /\ \/ /\ log' = Append(log, sync_entry)
          /\ sync_pc' = "notify"
       \/ /\ mode = "leader"
          /\ sync_pc' = "panicked"
          /\ UNCHANGED log
    /\ UNCHANGED <<emitted, output, sync_entry, sync_l, registered, notified,
                   broadcast, bcast_alive>>
    /\ UNCHANGED <<mode, exit, emittedAtStop, serveVars, replVars>>

\* a write_entry that drops the writer's error (`let _ = writeln!(..)`)
write_entry_writeln_swallowed ==
    /\ sync_pc = "writeln"
    /\ sync_pc' = "notify"
    /\ IF mode = "leader"
       THEN \/ log' = Append(log, sync_entry)
            \/ UNCHANGED log
       ELSE UNCHANGED log
    /\ UNCHANGED <<emitted, output, sync_entry, sync_l, registered, notified,
                   broadcast, bcast_alive>>
    /\ UNCHANGED <<mode, exit, emittedAtStop, serveVars, replVars>>

\* write_entry: `writeln!(writer.lock().., "{}", ..).expect(..)`
\* the leader's writer is the caller's and may fail (expect panics); the
\* validator's is io::sink(), which takes every line and keeps none
write_entry_writeln ==
    /\ sync_pc = "writeln"
    /\ IF mode = "leader"
       THEN \/ /\ log' = Append(log, sync_entry)
               /\ sync_pc' = "notify"
            \/ /\ sync_pc' = "panicked"
               /\ UNCHANGED log
       ELSE /\ sync_pc' = "notify"
            /\ UNCHANGED log
    /\ UNCHANGED <<emitted, output, sync_entry, sync_l, registered, notified,
                   broadcast, bcast_alive>>
    /\ UNCHANGED <<mode, exit, emittedAtStop, serveVars, replVars>>

\* write_entries that puts the entry at the front of `l`
write_entry_notify_front ==
    /\ sync_pc = "notify"
    /\ notified' = Append(notified, sync_entry)
    /\ sync_l' = <<sync_entry>> \o sync_l
    /\ sync_entry' = 0
    /\ sync_pc' = "try_recv"
    /\ UNCHANGED <<emitted, output, registered, log, broadcast, bcast_alive>>
    /\ UNCHANGED <<mode, exit, emittedAtStop, serveVars, replVars>>

\* write_entry: `notify_entry_info_subscribers(&entry)`, then `l.push(entry)`
\* of write_entries
write_entry_notify ==
    /\ sync_pc = "notify"
    /\ notified' = Append(notified, sync_entry)
    /\ sync_l' = Append(sync_l, sync_entry)
    /\ sync_entry' = 0
    /\ sync_pc' = "try_recv"
    /\ UNCHANGED <<emitted, output, registered, log, broadcast, bcast_alive>>
    /\ UNCHANGED <<mode, exit, emittedAtStop, serveVars, replVars>>

\* a write_entries that returns after its first entry (`if let`, no loop)
write_entries_try_recv_once ==
    /\ sync_pc = "try_recv"
    /\ sync_pc' = "listed"
    /\ UNCHANGED <<emitted, output, sync_entry, sync_l, registered, log,
                   notified, broadcast, bcast_alive>>
    /\ UNCHANGED <<mode, exit, emittedAtStop, serveVars, replVars>>

\* write_entries: `while let Ok(entry) = output.lock().try_recv()`, else Ok(l)
write_entries_try_recv ==
    /\ sync_pc = "try_recv"
    /\ IF output = <<>>
       THEN /\ sync_pc' = "listed"
            /\ UNCHANGED <<output, sync_entry>>
       ELSE /\ sync_entry' = Head(output)
            /\ output' = Tail(output)
            /\ sync_pc' = "register"
    /\ UNCHANGED <<emitted, sync_l, registered, log, notified, broadcast,
                   bcast_alive>>
    /\ UNCHANGED <<mode, exit, emittedAtStop, serveVars, replVars>>

\* run_sync after write_entries: pack the list, `if !q.is_empty()
\* { broadcast.send(q)?; }`; the send is an Err once the receiver is dropped
run_sync ==
    /\ mode = "leader"
    /\ sync_pc = "listed"
    /\ LET q == process_entry_list_into_blobs(sync_l)
       IN  /\ broadcast' = IF q # <<>> /\ bcast_alive
                           THEN Append(broadcast, q) ELSE broadcast
           /\ sync_pc' = IF q # <<>> /\ ~bcast_alive THEN "send_err" ELSE "ok"
    /\ sync_l' = <<>>
    /\ UNCHANGED <<emitted, output, sync_entry, registered, log, notified,
                   bcast_alive>>
    /\ UNCHANGED <<mode, exit, emittedAtStop, serveVars, replVars>>

\* run_sync_no_broadcast after write_entries: the list is dropped
run_sync_no_broadcast ==
    /\ mode = "validator"
    /\ sync_pc = "listed"
    /\ sync_l' = <<>>
    /\ sync_pc' = "ok"
    /\ UNCHANGED <<emitted, output, sync_entry, registered, log, notified,
                   broadcast, bcast_alive>>
    /\ UNCHANGED <<mode, exit, emittedAtStop, serveVars, replVars>>

\* a sync_service with the loop test of the verifier threads
sync_service_on_err ==
    /\ mode = "leader"
    /\ sync_pc \in {"ok", "timeout", "send_err"}
    /\ sync_pc' = IF sync_pc # "ok" /\ exit THEN "exited" ELSE "recv"
    /\ UNCHANGED <<emitted, output, sync_entry, sync_l, registered, log,
                   notified, broadcast, bcast_alive>>
    /\ UNCHANGED <<mode, exit, emittedAtStop, serveVars, replVars>>

\* sync_service: `let _ = obj.run_sync(..); if exit.load(..) { break; }`
\* the pass's result, Ok or Err, is dropped
sync_service ==
    /\ mode = "leader"
    /\ sync_pc \in {"ok", "timeout", "send_err"}
    /\ sync_pc' = IF exit THEN "exited" ELSE "recv"
    /\ UNCHANGED <<emitted, output, sync_entry, sync_l, registered, log,
                   notified, broadcast, bcast_alive>>
    /\ UNCHANGED <<mode, exit, emittedAtStop, serveVars, replVars>>

\* sync_no_broadcast_service: `let _ = obj.run_sync_no_broadcast(..);
\* if exit.load(..) { break; }`
sync_no_broadcast_service ==
    /\ mode = "validator"
    /\ sync_pc \in {"ok", "timeout"}
    /\ sync_pc' = IF exit THEN "exited" ELSE "recv"
    /\ UNCHANGED <<emitted, output, sync_entry, sync_l, registered, log,
                   notified, broadcast, bcast_alive>>
    /\ UNCHANGED <<mode, exit, emittedAtStop, serveVars, replVars>>

NextSync ==
    \/ SetExit
    \/ Emit
    \/ BroadcasterExit
    \/ write_entries_recv
    \/ write_entry_register
    \/ write_entry_writeln
    \/ write_entry_notify
    \/ write_entries_try_recv
    \/ run_sync
    \/ run_sync_no_broadcast
    \/ sync_service
    \/ sync_no_broadcast_service

SpecSync == Init /\ [][NextSync]_vars

(* ---------------------------- replicate path -------------------------- *)
\* the run of buffered indices that starts at `from`
RECURSIVE Run(_, _)
Run(from, held) ==
    IF from \in held THEN <<from>> \o Run(from + 1, held \ {from}) ELSE <<>>

\* streamer::blob_receiver and streamer::window: blob `i` arrives on the
\* replicate socket, in any order and any number of times; the window drops
\* what it has seen, holds back what is ahead of a gap, and releases the
\* contiguous run, in index order, on window_sender
window(i) ==
    /\ mode = "validator"
    /\ IF i < consumed \/ i \in window_buf
       THEN UNCHANGED <<window_buf, consumed, reordered, windowQ>>
       ELSE LET held == window_buf \cup {i}
                run == Run(consumed, held)
            IN  /\ window_buf' = held \ {run[k] : k \in 1..Len(run)}
                /\ consumed' = consumed + Len(run)
                /\ reordered' = (reordered \/ i > consumed)
                /\ windowQ' = IF run = <<>> THEN windowQ ELSE Append(windowQ, run)
    /\ UNCHANGED <<startBal, rpc, r_blobs, rflagged, replicated, recycled,
                   alice, bob>>
    /\ UNCHANGED <<mode, exit, emittedAtStop, serveVars, syncVars>>

\* replicate_state: `verified_receiver.recv_timeout(timer)?`
replicate_state_recv ==
    /\ mode = "validator"
    /\ rpc = "recv"
    /\ IF windowQ = <<>>
       THEN /\ rpc' = "err"
            /\ UNCHANGED <<windowQ, r_blobs>>
       ELSE /\ r_blobs' = Head(windowQ)
            /\ windowQ' = Tail(windowQ)
            /\ rpc' = "process"
    /\ UNCHANGED <<startBal, window_buf, consumed, reordered, rflagged,
                   replicated, recycled, alice, bob>>
    /\ UNCHANGED <<mode, exit, emittedAtStop, serveVars, syncVars>>

\* replicate_state with `entries` taken from the blobs back to front
replicate_state_process_reversed ==
    /\ rpc = "process"
    /\ LET entries == reconstruct_entries_from_blobs(Reverse(r_blobs))
           res == process_verified_entries(
                      entries, [alice |-> alice, bob |-> bob, ok |-> TRUE])
       IN  /\ replicated' = replicated \o Indices(entries)
           /\ alice' = res.alice
           /\ bob' = res.bob
           /\ IF res.ok
              THEN /\ rpc' = "recycle"
                   /\ UNCHANGED r_blobs
              ELSE /\ rpc' = "err"
                   /\ r_blobs' = <<>>
    /\ UNCHANGED <<startBal, window_buf, consumed, reordered, windowQ,
                   rflagged, recycled>>
    /\ UNCHANGED <<mode, exit, emittedAtStop, serveVars, syncVars>>

\* replicate_state that hands `entries` to the accountant a second time
replicate_state_process_twice ==
    /\ rpc = "process"
    /\ LET entries == reconstruct_entries_from_blobs(r_blobs)
           res == process_verified_entries(
                      entries \o entries,
                      [alice |-> alice, bob |-> bob, ok |-> TRUE])
       IN  /\ replicated' = replicated \o Indices(entries)
           /\ alice' = res.alice
           /\ bob' = res.bob
           /\ IF res.ok
              THEN /\ rpc' = "recycle"
                   /\ UNCHANGED r_blobs
              ELSE /\ rpc' = "err"
                   /\ r_blobs' = <<>>
    /\ UNCHANGED <<startBal, window_buf, consumed, reordered, windowQ,
                   rflagged, recycled>>
    /\ UNCHANGED <<mode, exit, emittedAtStop, serveVars, syncVars>>

\* replicate_state: reconstruct_entries_from_blobs(&blobs), then
\* `accountant.process_verified_entries(entries)?`: on Err the function
\* returns with `blobs` dropped
replicate_state_process ==
    /\ mode = "validator"
    /\ rpc = "process"
    /\ LET entries == reconstruct_entries_from_blobs(r_blobs)
           res == process_verified_entries(
                      entries, [alice |-> alice, bob |-> bob, ok |-> TRUE])
       IN  /\ replicated' = replicated \o Indices(entries)
           /\ alice' = res.alice
           /\ bob' = res.bob
           /\ IF res.ok
              THEN /\ rpc' = "recycle"
                   /\ UNCHANGED r_blobs
              ELSE /\ rpc' = "err"
                   /\ r_blobs' = <<>>
    /\ UNCHANGED <<startBal, window_buf, consumed, reordered, windowQ,
                   rflagged, recycled>>
    /\ UNCHANGED <<mode, exit, emittedAtStop, serveVars, syncVars>>

\* replicate_state: `for blob in blobs { blob_recycler.recycle(blob); }`
replicate_state_recycle ==
    /\ rpc = "recycle"
    /\ recycled' = recycled \o r_blobs
    /\ r_blobs' = <<>>
    /\ rpc' = "ok"
    /\ UNCHANGED <<startBal, window_buf, consumed, reordered, windowQ,
                   rflagged, replicated, alice, bob>>
    /\ UNCHANGED <<mode, exit, emittedAtStop, serveVars, syncVars>>

\* a t_replicator that breaks on any Err (`if e.is_err() { break; }`)
replicator_loop_break_on_err ==
    /\ rpc \in {"ok", "err"}
    /\ rpc' = IF rpc = "err" THEN "exited" ELSE "recv"
    /\ rflagged' = (rflagged \/ exit)
    /\ UNCHANGED <<startBal, window_buf, consumed, reordered, windowQ,
                   r_blobs, replicated, recycled, alice, bob>>
    /\ UNCHANGED <<mode, exit, emittedAtStop, serveVars, syncVars>>

\* t_replicator: `if e.is_err() && s_exit.load(..) { break; }`
replicator_loop ==
    /\ rpc \in {"ok", "err"}
    /\ rpc' = IF rpc = "err" /\ exit THEN "exited" ELSE "recv"
    /\ rflagged' = (rflagged \/ exit)
    /\ UNCHANGED <<startBal, window_buf, consumed, reordered, windowQ,
                   r_blobs, replicated, recycled, alice, bob>>
    /\ UNCHANGED <<mode, exit, emittedAtStop, serveVars, syncVars>>

NextReplicate ==
    \/ SetExit
    \/ \E i \in 0..(MaxBlobs - 1) : window(i)
    \/ replicate_state_recv
    \/ replicate_state_process
    \/ replicate_state_recycle
    \/ replicator_loop

SpecReplicate == Init /\ [][NextReplicate]_vars

(* --------------------------- the whole program ------------------------ *)
Next == NextServe \/ NextSync \/ NextReplicate

Spec == Init /\ [][Next]_vars

(* ------------------- fairness of the serve path ----------------------- *)
\* Every spawned thread keeps being scheduled. The verifier threads have no
\* identity in the bag, so fairness is stated per local state: a thread that
\* stays in one local state with a step to take eventually takes it.
BatchLists == UNION {[1..n -> SharedPackets] : n \in 1..MaxInFlight}

VLocal ==
    {VThread(pc, <<>>, f) : pc \in {"recv", "recv_locked", "ok", "err"},
                            f \in BOOLEAN}
    \cup {VThread(pc, b, f) : pc \in {"verify", "send_locked"},
                             b \in BatchLists, f \in BOOLEAN}

verifier_step(t) ==
    /\ BagIn(t, verify_threads)
    /\ \/ verifier_lock(t)
       \/ verifier_recv(t)
       \/ verify_batch_lock(t)
       \/ verify_batch(t)
       \/ verifier_loop(t)

FairServe ==
    /\ InitServe
    /\ [][NextServe]_vars
    /\ WF_vars(process_request_packets)
    /\ WF_vars(server_loop)
    /\ \A t \in VLocal : WF_vars(verifier_step(t))

(* ------------------------------ the claims ---------------------------- *)
\* the flag vector of one batch: byte j is 1 iff packet j's signature verifies
SigFlags(b) == [j \in 1..Len(b) |-> b[j].sig]

\* C1: every transaction handed to the accounting stage was paired with
\* sig-flag 1 by the verifier, and that flag is the one computed for this
\* very packet: a packet whose flag is 0 is never forwarded.
C1_SignatureGating ==
    \A x \in accountingInput : x.flag = 1 /\ x.pkt.sig = 1

\* t_server has processed a message (every batch holds a flag-0 transaction)
\* and forwarded a transaction from it
C1_Witness ==
    /\ spc = "ok"
    /\ [pkt |-> TxGood, flag |-> 1] \in accountingInput

\* C2: the entries appended to the log writer, and the entries packed into
\* the blob queues sent to the broadcaster, concatenated in send order, are
\* each a prefix of the entries the accounting stage emitted.
C2_EntryOrder ==
    /\ IsPrefix(log, Emitted)
    /\ IsPrefix(Flatten(Flatten(broadcast)), Emitted)

\* two passes were broadcast, one of them with more than one entry
C2_Witness ==
    /\ Len(broadcast) >= 2
    /\ Len(log) >= 3
    /\ \E k \in 1..Len(broadcast) : Len(Flatten(broadcast[k])) >= 2

\* C3 as claimed: each emitted entry is processed exactly once and none is
\* left unprocessed, also around the stop flag: when the sync worker has
\* exited, every entry emitted before the flag was set has been processed
\* exactly once.
C3_ExactlyOnce ==
    sync_pc = "exited" =>
        \A e \in 1..emittedAtStop : Count(e, registered) = 1

\* C3 as amended: entries are processed at most once, in emission order and
\* without skipping; every emitted entry is processed, in the worker's hand
\* or still in the channel.
C3_AtMostOnceInOrder ==
    /\ registered = [i \in 1..Len(registered) |-> i]
    /\ Len(registered) + (IF sync_pc = "register" THEN 1 ELSE 0) + Len(output)
           = emitted
    /\ \A k \in 1..Len(output) : output[k] = emitted - Len(output) + k

\* the sync worker exited on the stop flag after processing entries, with an
\* entry emitted before the flag was set still in the channel
C3_Witness ==
    /\ sync_pc = "exited"
    /\ registered # <<>>
    /\ output # <<>>
    /\ Head(output) <= emittedAtStop

\* C4: once the stop flag is set, every verifier and the request-processor
\* thread eventually terminate, whatever input is still arriving.
C4_ShutdownLiveness ==
    exit ~> (/\ spc = "exited"
             /\ \A t \in Pool : t.pc \in {"exited", "panicked"})

\* C5: no worker completes a further successful iteration after it has
\* finished one iteration with the stop flag already set.
C5_NoFurtherIteration ==
    /\ \A t \in Pool : ~(t.pc = "ok" /\ t.flagged)
    /\ ~(spc = "ok" /\ sflagged)
    /\ ~(rpc = "ok" /\ rflagged)

\* C6: the blob indices t_replicator receives from the window and hands to
\* process_verified_entries are strictly increasing and gap-free from the
\* first one.
C6_WindowMonotonic ==
    \A k \in 1..(Len(replicated) - 1) : replicated[k + 1] = replicated[k] + 1

\* blobs arrived out of order and t_replicator has received three of them
C6_Witness ==
    /\ reordered
    /\ Len(replicated) >= 3

\* C7: the two balances always sum to the starting balance, and once all
\* MaxBlobs blobs, one transfer of TransferAmount each, have gone through
\* the window and t_replicator has applied them (the mint can pay them all),
\* the mint holds its starting balance less MaxBlobs * TransferAmount and
\* the recipient MaxBlobs * TransferAmount, whatever the arrival order.
C7_ReplicationResult ==
    /\ alice + bob = startBal
    /\ (/\ startBal >= MaxBlobs * TransferAmount
        /\ consumed = MaxBlobs
        /\ windowQ = <<>>
        /\ rpc # "process")
       => /\ alice = startBal - MaxBlobs * TransferAmount
          /\ bob = MaxBlobs * TransferAmount

\* all blobs applied after an out-of-order arrival
C7_Witness ==
    /\ reordered
    /\ startBal = StartingBalance
    /\ consumed = MaxBlobs
    /\ windowQ = <<>>
    /\ rpc = "ok"
    /\ Len(replicated) = MaxBlobs

\* C8: between iterations, every blob t_replicator has received has been
\* recycled exactly once, also after process_verified_entries returned Err.
C8_RecycledOnce ==
    rpc \in {"recv", "ok", "err", "exited"} =>
        \A k \in 1..Len(replicated) : Count(replicated[k], recycled) = 1

\* C9: the message a verifier sends lists the batches it received in the
\* order recv_batch returned them, each paired with its own flag vector.
C9_OrderAndPairing ==
    [][Len(verifiedQ') > Len(verifiedQ) =>
         LET m == verifiedQ'[Len(verifiedQ')]
         IN  \E t \in Pool :
                /\ t.pc = "send_locked"
                /\ CopiesIn(t, verify_threads') < CopiesIn(t, verify_threads)
                /\ Len(m) = Len(t.batch)
                /\ \A i \in 1..Len(m) :
                       m[i][1] = t.batch[i] /\ m[i][2] = SigFlags(t.batch[i])]_vars

\* a message of two different batches is on the verified queue
C9_Witness ==
    \E k \in 1..Len(verifiedQ) :
        /\ Len(verifiedQ[k]) = 2
        /\ verifiedQ[k][1][1] # verifiedQ[k][2][1]

\* C10 as claimed: in validator mode nothing is logged, nothing is sent to a
\* broadcaster and no entry-info subscriber is notified.
C10_OnlyRegister ==
    mode = "validator" => log = <<>> /\ broadcast = <<>> /\ notified = <<>>

\* C10 as amended: in validator mode nothing is logged and nothing is sent
\* to a broadcaster; each processed entry is registered and then announced
\* to the entry-info subscribers.
C10_NoLogNoBroadcast ==
    mode = "validator" =>
        /\ log = <<>>
        /\ broadcast = <<>>
        /\ IsPrefix(notified, registered)
        /\ Len(registered) <= Len(notified) + 1

\* the validator's sync worker has processed two entries
C10_Witness ==
    /\ mode = "validator"
    /\ Len(notified) >= 2

\* C11: a verifier whose send on the verified queue fails stays alive and
\* goes on to its next iteration; it ends only through the stop-flag check,
\* so no verifier thread is ever ended by a panic.
C11_SendFailureKeepsWorker ==
    \A t \in Pool : t.pc # "panicked"

\* C15: a verifier is inside recv_batch exactly while the receiver lock is
\* held, and about to send exactly while the sender lock is held; so at most
\* one verifier is inside the batch receive, each lock spans one call, and a
\* verifier that is verifying, or anywhere else in its loop, holds no lock.
C15_LockDiscipline ==
    /\ InPc("recv_locked") = (IF recvr_lock THEN 1 ELSE 0)
    /\ InPc("send_locked") = (IF sendr_lock THEN 1 ELSE 0)

\* one verifier inside recv_batch, one about to send, while two more wait
\* for the receiver lock and for the sender lock
C15_Witness ==
    /\ recvr_lock
    /\ sendr_lock
    /\ InPc("recv") >= 1
    /\ InPc("verify") >= 1

\* C12: when the flag result is empty or shorter than the batch list, the
\* whole list is rejected: a verifier never sends packets of a part of the
\* batch list it received, so a message that carries any batch carries them
\* all.
C12_ShortFlagsRejectBatch ==
    [][\A t \in Pool :
          (/\ t.pc = "send_locked"
           /\ CopiesIn(t, verify_threads') < CopiesIn(t, verify_threads)
           /\ Len(verifiedQ') > Len(verifiedQ)
           /\ verifiedQ'[Len(verifiedQ')] # <<>>)
          => Len(verifiedQ'[Len(verifiedQ')]) = Len(t.batch)]_vars

EndsWith(q, e) == q # <<>> /\ q[Len(q)] = e

\* C14: for each entry the sync worker registers it, then appends it to the
\* writer, then announces it: what is logged or announced is already
\* registered, what is announced by the leader is already logged, and an
\* entry in the worker's hand after register_entry_id is the last one
\* registered and is neither logged nor announced before its turn.
C14_RegisterWriteNotify ==
    /\ IsPrefix(notified, registered)
    /\ mode = "leader" => IsPrefix(log, registered) /\ IsPrefix(notified, log)
    /\ sync_pc = "writeln" =>
           /\ EndsWith(registered, sync_entry)
           /\ Len(notified) = Len(registered) - 1
           /\ mode = "leader" => Len(log) = Len(registered) - 1
    /\ sync_pc = "notify" =>
           /\ EndsWith(registered, sync_entry)
           /\ Len(notified) = Len(registered) - 1
           /\ mode = "leader" => EndsWith(log, sync_entry)
    /\ sync_pc \notin {"writeln", "notify", "panicked"} =>
           Len(notified) = Len(registered)

\* the leader's sync worker, two entries done, has registered and logged a
\* third and not yet announced it
C14_Witness ==
    /\ mode = "leader"
    /\ sync_pc = "notify"
    /\ Len(notified) = 2
    /\ Len(log) = 3

\* the last n elements of q
Suffix(q, n) == SubSeq(q, Len(q) - n + 1, Len(q))

\* C17: a pass whose blocking receive times out found the channel empty and
\* registers, logs, announces and broadcasts nothing; after a first entry
\* the worker takes the next entry whenever the channel holds one and ends
\* the pass only on seeing it empty; the list it returns is never empty and
\* holds the entries of the pass in receive order; and what the leader sends
\* to the broadcaster is that list in blobs, never an empty queue.
C17_DrainDiscipline ==
    [][/\ (sync_pc = "recv" /\ sync_pc' = "timeout")
           => /\ output = <<>>
              /\ sync_l = <<>>
              /\ UNCHANGED <<registered, log, notified, broadcast>>
       /\ sync_pc = "timeout"
           => UNCHANGED <<registered, log, notified, broadcast>>
       /\ (sync_pc = "try_recv" /\ sync_pc' # sync_pc)
           => IF output = <<>>
              THEN sync_pc' = "listed" /\ sync_l' = sync_l
              ELSE sync_pc' = "register" /\ sync_entry' = Head(output)
       /\ sync_pc' = "listed"
           => /\ sync_l' # <<>>
              /\ Len(sync_l') <= Len(notified')
              /\ sync_l' = Suffix(notified', Len(sync_l'))
       /\ broadcast' # broadcast
           => LET q == broadcast'[Len(broadcast')]
              IN  /\ sync_pc = "listed"
                  /\ q # <<>>
                  /\ \A k \in 1..Len(q) : q[k] # <<>>
                  /\ Flatten(q) = sync_l]_vars

\* a pass of at least two entries was broadcast, and a later pass timed out
C17_Witness ==
    /\ sync_pc = "timeout"
    /\ \E k \in 1..Len(broadcast) : Len(Flatten(broadcast[k])) >= 2

\* C18: an Err of process_verified_entries ends the iteration there (the
\* blobs in hand are let go) and, with the stop flag unset, the replicator
\* goes back to its receive: it never leaves its loop while the flag is
\* unset, and every blob the window has released is on the window queue, in
\* the replicator's hand, or was handed to process_verified_entries.
C18_ReplicatorKeepsRunning ==
    [][/\ (rpc = "process" /\ rpc' = "err") => r_blobs' = <<>>
       /\ (rpc = "err" /\ ~exit /\ rpc' # rpc) => rpc' = "recv"
       /\ (~exit /\ rpc # "exited") => rpc' # "exited"
       /\ consumed' = Len(replicated') + SumLen(windowQ')
                         + (IF rpc' = "process" THEN Len(r_blobs') ELSE 0)]_vars

\* with the stop flag unset the replicator has received a blob after an
\* iteration that failed (a blob of it was handed on and never recycled)
C18_Witness ==
    /\ ~exit
    /\ rpc = "process"
    /\ r_blobs # <<>>
    /\ \E k \in 1..Len(replicated) : Count(replicated[k], recycled) = 0

\* C19: on a validator the serve path is read-only: no transaction packet
\* that arrives on the serve socket reaches the accounting stage's input.
C19_ValidatorServesReadOnly ==
    mode = "validator" => accountingInput = {}

\* the elements of a sequence
Range(q) == {q[k] : k \in 1..Len(q)}

\* C20: on the leader, the entries in the blob queues sent to the
\* broadcaster are among the entries appended to the log, and these are
\* among the entries registered, also after the writer has failed or the
\* broadcaster is gone.
C20_Containment ==
    mode = "leader" =>
        /\ Range(Flatten(Flatten(broadcast))) \subseteq Range(log)
        /\ Range(log) \subseteq Range(registered)

\* the writer failed in a pass that followed a broadcast one, after the
\* broadcaster had gone: an entry is registered and not logged, another is
\* logged and not broadcast
C20_Witness ==
    /\ mode = "leader"
    /\ sync_pc = "panicked"
    /\ ~bcast_alive
    /\ broadcast # <<>>
    /\ Len(registered) > Len(log)
    /\ Len(log) > Len(Flatten(Flatten(broadcast)))

Batches(m) == [i \in 1..Len(m) |-> m[i][1]]

====
